---- MODULE Spec2Model ----
(***************************************************************************)
(* ZenVocab session engines: StudyMode.tsx (self-graded recognition with   *)
(* requeue) and DictationMode.tsx (auto-graded spelling), together with    *)
(* the part of App.tsx that mounts them and receives their summaries.      *)
(*                                                                         *)
(* React state is modelled as variables; a handler runs against the        *)
(* values of the render it was created in (its closure), while functional  *)
(* updates (setX(prev => ...)) run against the current state.  A callback  *)
(* handed to setTimeout is a record in `timers` holding that closure.      *)
(***************************************************************************)
EXTENDS Integers, Sequences, FiniteSets

(* ------------------------------ bounds --------------------------------- *)
MaxWords == 2          \* longest candidate list
MaxTarget == 2         \* largest targetCount
MaxQueue == 4          \* study queue length cap (requeue guard)
MaxTimers == 2         \* pending setTimeout callbacks cap
MaxSessions == 2       \* most history records
MaxErrors == 2         \* most error log entries

(* ------------------------- program constants --------------------------- *)
VagueCopies == 1
UnknownCopies == 3

\* Word ids are the integers 1..MaxWords (crypto.randomUUID() values in the
\* program); 0 stands for undefined and for any id that is no word's id.
WordIds == 1..MaxWords
Undefined == 0

VARIABLES
  view,            \* App: 'study-active' | 'dictation-active' | 'home'
  words,           \* props.words (candidate list, sequence of word ids)
  targetCount,     \* props.targetCount
  queue,           \* StudyMode: QueueItem[] (each entry its word id)
  currentIndex,    \* StudyMode
  isRevealed,      \* StudyMode
  sessionErrors,   \* StudyMode: ErrorRecord[]
  learnedIds,      \* StudyMode: Set<string>
  timers,          \* pending setTimeout callbacks, in scheduling order
  completed,       \* summaries handed to onComplete, in call order
  dQueue,          \* DictationMode: queue, as positions into words
  dCurrentIndex,   \* DictationMode: currentIndex
  input,           \* DictationMode
  feedback,        \* DictationMode: 'none' | 'correct' | 'incorrect'
  dSessionErrors,  \* DictationMode: sessionErrors
  dLearnedIds,     \* DictationMode: learnedIds (string[])
  lastResponse,    \* history: last response applied to each word id
  everQueued,      \* history: word ids that ever occupied a study queue entry
  exited,          \* history: onExit has been called
  answered,        \* history: queue indexes a response has been applied to
  books,           \* App: WordBook[] (each its word ids and learnedWordIds)
  selectedBookId,  \* App: position of the selected book in books, 0 for null
  errors,          \* App: the error log, ErrorRecord[]
  history,         \* App: HistoryRecord[]
  reviewWords,     \* App: words of the error review (their ids)
  isReviewingErrors,  \* App
  last             \* history: the operation taken by the last step

vars == <<view, words, targetCount, queue, currentIndex, isRevealed,
          sessionErrors, learnedIds, timers, completed, dQueue,
          dCurrentIndex, input, feedback, dSessionErrors, dLearnedIds,
          lastResponse, everQueued, answered, exited, books, selectedBookId,
          errors, history, reviewWords, isReviewingErrors, last>>

studyVars == <<queue, currentIndex, isRevealed, sessionErrors, learnedIds>>
dictVars == <<dQueue, dCurrentIndex, input, feedback, dSessionErrors,
              dLearnedIds>>
propVars == <<words, targetCount>>
appVars == <<books, selectedBookId, errors, history, reviewWords,
             isReviewingErrors>>

(* ------------------------------ helpers -------------------------------- *)
Range(s) == {s[i] : i \in 1..Len(s)}

Min(a, b) == IF a < b THEN a ELSE b

Max(a, b) == IF a > b THEN a ELSE b

RemoveAt(s, i) == SubSeq(s, 1, i - 1) \o SubSeq(s, i + 1, Len(s))

\* Array.prototype.slice(0, end): a negative end counts from the tail.
Slice(s, end) ==
  LET final == IF end < 0 THEN Max(Len(s) + end, 0) ELSE Min(end, Len(s))
  IN  SubSeq(s, 1, final)

\* Candidate lists as App.getSessionWords builds them: the unlearned words of
\* a book (each with its own randomUUID id) or the de-duplicated review
\* words, so no id occurs twice.
CandidateLists ==
  {l \in UNION {[1..n -> WordIds] : n \in 0..MaxWords} :
     \A i, j \in 1..Len(l) : l[i] = l[j] => i = j}

TargetCounts == (0 - 1)..MaxTarget

(* --------------------------- text of a word ---------------------------- *)
WordText(id) == IF id = 1 THEN <<"A", "b">> ELSE <<"b">>

Lower(c) == CASE c = "A" -> "a" [] c = "B" -> "b" [] OTHER -> c

ToLowerCase(s) == [i \in 1..Len(s) |-> Lower(s[i])]

RECURSIVE TrimStart(_)
TrimStart(s) ==
  IF s # <<>> /\ Head(s) = " " THEN TrimStart(Tail(s)) ELSE s

RECURSIVE TrimEnd(_)
TrimEnd(s) ==
  IF s # <<>> /\ s[Len(s)] = " " THEN TrimEnd(SubSeq(s, 1, Len(s) - 1)) ELSE s

Trim(s) == TrimEnd(TrimStart(s))

TypedInputs ==
  { <<>>, <<"a", "b">>, <<" ", "A", "B", " ">>, <<"b">>, <<"B", " ">>,
    <<"a", " ", "b">> }

(* ====================== App: completion handlers ====================== *)
\* Array.from(new Set(s)), Array.from(new Map(...).values()): the elements
\* of s in the order of their first occurrence
RECURSIVE Unique(_)
Unique(s) ==
  IF s = <<>> THEN <<>>
  ELSE LET r == Unique(SubSeq(s, 1, Len(s) - 1))
       IN  IF s[Len(s)] \in Range(r) THEN r ELSE Append(r, s[Len(s)])

\* the elements of a set of integers as an array, in increasing order
RECURSIVE SortedSeq(_)
SortedSeq(S) ==
  IF S = {} THEN <<>>
  ELSE LET least == CHOOSE x \in S : \A y \in S : x <= y
       IN  <<least>> \o SortedSeq(S \ {least})

\* const activeBook = books.find(b => b.id === selectedBookId)
HasActiveBook == selectedBookId \in 1..Len(books)

\* a study result carries reviewedCount, a dictation result totalCount
IsStudySummary(s) == "reviewedCount" \in DOMAIN s

SummaryCount(s) == IF IsStudySummary(s) THEN s.reviewedCount ELSE s.totalCount

\* result.learnedIds as an array; StudyMode builds it with
\* Array.from(finalLearned), whose order no code depends on
LearnedArray(s) ==
  IF IsStudySummary(s) THEN SortedSeq(s.learnedIds) ELSE s.learnedIds

\* updateLearnedWords with the learned ids written over the book's list
UpdateLearnedWordsOverwrites(bks, sel, learned) ==
  IF sel = 0 \/ learned = <<>> THEN bks
  ELSE [b \in 1..Len(bks) |->
          IF b = sel THEN [bks[b] EXCEPT !.learnedWordIds = learned]
          ELSE bks[b]]

\* updateLearnedWords, as the functional update of books
UpdateLearnedWords(bks, sel, learned) ==
  IF sel = 0 \/ learned = <<>> THEN bks
  ELSE [b \in 1..Len(bks) |->
          IF b = sel
          THEN [bks[b] EXCEPT !.learnedWordIds = Unique(@ \o learned)]
          ELSE bks[b]]

\* Math.round(num / den) for den > 0: the nearest integer, halves upwards
Round(num, den) == (2 * num + den) \div (2 * den)

\* const accuracy = count > 0
\*   ? Math.round(((count - errors.length) / count) * 100) : 0
Accuracy(count, nErrors) ==
  IF count > 0 THEN Round((count - nErrors) * 100, count) ELSE 0

\* accuracy: Math.max(0, accuracy)
StoredAccuracy(count, nErrors) == Max(0, Accuracy(count, nErrors))

\* const newRecord: HistoryRecord = {...}
NewRecord(s) ==
  [type |-> IF IsStudySummary(s) THEN "study" ELSE "dictation",
   review |-> isReviewingErrors,
   totalWords |-> SummaryCount(s),
   accuracy |-> StoredAccuracy(SummaryCount(s), Len(s.errors))]

\* App.handleStudyComplete / handleDictationComplete, the onComplete of the
\* session components (`completed` keeps the results they were called with)
\* handleStudyComplete / handleDictationComplete
HandleComplete(summary) ==
  /\ errors' = errors \o summary.errors
  /\ books' = UpdateLearnedWords(books, selectedBookId, LearnedArray(summary))
  /\ history' = IF HasActiveBook \/ isReviewingErrors
                THEN <<NewRecord(summary)>> \o history
                ELSE history
  /\ isReviewingErrors' = FALSE
  /\ view' = "home"
  /\ UNCHANGED <<selectedBookId, reviewWords>>

\* the session's onComplete prop: the call is recorded and the App handles it
OnComplete(summary) ==
  /\ completed' = Append(completed, summary)
  /\ HandleComplete(summary)

(* ============================ StudyMode ================================ *)
\* The values a handler created in the current render closes over.
Closure ==
  [queue |-> queue, currentIndex |-> currentIndex,
   learnedIds |-> learnedIds, sessionErrors |-> sessionErrors]

\* const currentItem = queue[currentIndex]
CurrentItem(c) ==
  IF c.currentIndex < Len(c.queue) THEN c.queue[c.currentIndex + 1]
  ELSE Undefined

\* a 'known' response that requeues like 'vague'
CopiesKnownRequeues(type) ==
  CASE type = "known" -> VagueCopies
    [] type = "vague" -> VagueCopies
    [] type = "unknown" -> UnknownCopies

Copies(type) ==
  CASE type = "known" -> 0
    [] type = "vague" -> VagueCopies
    [] type = "unknown" -> UnknownCopies

\* let nextQueue = [...queue]; nextQueue.push(...) per response type
NextQueue(type, c) ==
  c.queue \o [i \in 1..Copies(type) |-> CurrentItem(c)]

NextIndex(c) == c.currentIndex + 1

\* RecordError without the prev.some(...) check
RecordErrorNoDedupe(prev, w) ==
  Append(prev, [wordId |-> w, type |-> "learning"])

\* setSessionErrors(prev => prev.some(...) ? prev : [...prev, record])
RecordError(prev, w) ==
  IF \E i \in 1..Len(prev) : prev[i].wordId = w THEN prev
  ELSE Append(prev, [wordId |-> w, type |-> "learning"])

\* UpdateLearned adding the queue item's instance id instead of the word id
UpdateLearnedInstanceId(type, prev, w) ==
  IF type = "known" THEN prev \cup {0} ELSE prev \ {w}

\* setLearnedIds(prev => add on 'known', delete otherwise)
UpdateLearned(type, prev, w) ==
  IF type = "known" THEN prev \cup {w} ELSE prev \ {w}

\* UpdateErrors where a later 'known' clears the word's earlier error record
UpdateErrorsForgiving(type, prev, w) ==
  IF type = "known" THEN SelectSeq(prev, LAMBDA e : e.wordId # w)
  ELSE RecordError(prev, w)

\* the error list after a response of this type
UpdateErrors(type, prev, w) ==
  IF type = "known" THEN prev ELSE RecordError(prev, w)

\* FinalSummary counting exposures (queue entries) instead of distinct ids
FinalSummaryExposures(type, c) ==
  [reviewedCount |-> Len(NextQueue(type, c)),
   errors |-> c.sessionErrors,
   learnedIds |-> UpdateLearned(type, c.learnedIds, CurrentItem(c))]

\* FinalSummary read from the closure without the final response's mutation
FinalSummaryStale(type, c) ==
  [reviewedCount |-> Cardinality(Range(NextQueue(type, c))),
   errors |-> c.sessionErrors,
   learnedIds |-> c.learnedIds]

\* the object handed to onComplete by the deferred callback of handleResponse
FinalSummary(type, c) ==
  [reviewedCount |-> Cardinality(Range(NextQueue(type, c))),
   errors |-> c.sessionErrors,
   learnedIds |-> UpdateLearned(type, c.learnedIds, CurrentItem(c))]

\* IsFinal with > in place of >=
IsFinalOffByOne(type, c) == NextIndex(c) > Len(NextQueue(type, c))

\* if (nextIndex >= nextQueue.length)
IsFinal(type, c) == NextIndex(c) >= Len(NextQueue(type, c))

Mounted == view = "study-active"

\* handleResponse(type) of the render with closure c; `pending` are the
\* timers left once the caller's own callback is taken out, `revealed` the
\* value of isRevealed the caller has set before the call.
HandleResponse(type, c, pending, revealed, how) ==
  LET w == CurrentItem(c) IN
  IF w = Undefined
  THEN /\ isRevealed' = IF Mounted THEN revealed ELSE isRevealed
       /\ timers' = pending
       /\ last' = [op |-> "ignored", type |-> type, how |-> how,
                   threw |-> FALSE]
       /\ UNCHANGED <<queue, currentIndex, sessionErrors, learnedIds,
                      lastResponse, everQueued, answered>>
  ELSE IF ~Mounted
  THEN \* state setters of an unmounted component do nothing
       /\ timers' = IF IsFinal(type, c)
                    THEN Append(pending, [kind |-> "finish", delay |-> 0,
                                          summary |-> FinalSummary(type, c)])
                    ELSE pending
       /\ last' = [op |-> "unmounted", type |-> type, how |-> how]
       /\ UNCHANGED <<studyVars, lastResponse, everQueued, answered>>
  ELSE /\ learnedIds' = UpdateLearned(type, learnedIds, w)
       /\ sessionErrors' = UpdateErrors(type, sessionErrors, w)
       /\ lastResponse' = [lastResponse EXCEPT ![w] = type]
       /\ answered' = answered \cup {c.currentIndex}
       /\ last' = [op |-> "response", type |-> type, how |-> how, word |-> w,
                   index |-> c.currentIndex, final |-> IsFinal(type, c)]
       /\ IF IsFinal(type, c)
          THEN /\ timers' = Append(pending, [kind |-> "finish", delay |-> 0,
                                             summary |-> FinalSummary(type, c)])
               /\ isRevealed' = revealed
               /\ UNCHANGED <<queue, currentIndex, everQueued>>
          ELSE /\ queue' = NextQueue(type, c)
               /\ currentIndex' = NextIndex(c)
               /\ isRevealed' = FALSE
               /\ everQueued' = everQueued \cup Range(NextQueue(type, c))
               /\ timers' = pending

\* onClick of the 'known' button
ClickKnown ==
  /\ Mounted
  /\ CurrentItem(Closure) # Undefined
  /\ IsFinal("known", Closure) => Len(timers) < MaxTimers
  /\ HandleResponse("known", Closure, timers, TRUE, "click")
  /\ UNCHANGED <<view, propVars, appVars, completed, dictVars, exited>>

\* onClick of the 'vague' / 'unknown' buttons:
\* setIsRevealed(true); setTimeout(() => handleResponse(type), 800)
ClickDelayed(type) ==
  /\ Mounted
  /\ CurrentItem(Closure) # Undefined
  /\ Len(timers) < MaxTimers
  /\ Len(queue) + Copies(type) <= MaxQueue
  /\ isRevealed' = TRUE
  /\ timers' = Append(timers, [kind |-> "response", delay |-> 800,
                               type |-> type, closure |-> Closure])
  /\ last' = [op |-> "schedule", type |-> type]
  /\ UNCHANGED <<view, propVars, appVars, queue, currentIndex, sessionErrors,
                 learnedIds, completed, dictVars, lastResponse, everQueued,
                 answered, exited>>

ClickVague == ClickDelayed("vague")

ClickUnknown == ClickDelayed("unknown")

\* window keydown listener: Enter reveals, then answers 'known'
StudyEnterKey ==
  /\ Mounted
  /\ IF ~isRevealed
     THEN /\ isRevealed' = TRUE
          /\ last' = [op |-> "reveal"]
          /\ UNCHANGED <<queue, currentIndex, sessionErrors, learnedIds,
                         timers, lastResponse, everQueued, answered>>
     ELSE /\ IsFinal("known", Closure) => Len(timers) < MaxTimers
          /\ HandleResponse("known", Closure, timers, isRevealed, "enter")
  /\ UNCHANGED <<view, propVars, appVars, completed, dictVars, exited>>

\* A timer may run once every timer scheduled before it with a delay no
\* longer than its own has run.
CanFire(i) ==
  /\ i \in 1..Len(timers)
  /\ \A j \in 1..(i - 1) : timers[j].delay > timers[i].delay

\* the delayed () => handleResponse(type) runs
FireResponse ==
  \E i \in 1..Len(timers) :
    /\ CanFire(i)
    /\ timers[i].kind = "response"
    /\ HandleResponse(timers[i].type, timers[i].closure, RemoveAt(timers, i),
                      FALSE, "timer")
    /\ UNCHANGED <<view, propVars, appVars, completed, dictVars, exited>>

\* the deferred callback of handleResponse runs: onComplete(summary)
FireFinish ==
  \E i \in 1..Len(timers) :
    /\ CanFire(i)
    /\ timers[i].kind = "finish"
    /\ OnComplete(timers[i].summary)
    /\ timers' = RemoveAt(timers, i)
    /\ last' = [op |-> "complete", summary |-> timers[i].summary,
                mounted |-> Mounted]
    /\ UNCHANGED <<propVars, studyVars, dictVars, lastResponse, everQueued,
                   answered, exited>>

\* onExit of either session component:
\* () => { setIsReviewingErrors(false); setView('home'); }
Exit ==
  /\ view \in {"study-active", "dictation-active"}
  /\ isReviewingErrors' = FALSE
  /\ view' = "home"
  /\ exited' = TRUE
  /\ last' = [op |-> "exit"]
  /\ UNCHANGED <<propVars, books, selectedBookId, errors, history,
                 reviewWords, studyVars, timers, completed, dictVars,
                 lastResponse, everQueued, answered>>

(* ========================== DictationMode ============================== *)
DMounted == view = "dictation-active"

\* const currentWord = queue[currentIndex]  (a position into words)
CurrentWord ==
  IF dCurrentIndex < Len(dQueue) THEN dQueue[dCurrentIndex + 1] ELSE 0

DWordId(p) == words[p]

\* the permutations of 1..n, as sequences
Shuffles(n) ==
  {p \in [1..n -> 1..n] : \A i, j \in 1..n : p[i] = p[j] => i = j}

\* the comparison without input.trim()
IsCorrectNoTrim(typed, id) == ToLowerCase(typed) = ToLowerCase(WordText(id))

\* input.trim().toLowerCase() === currentWord.text.toLowerCase()
IsCorrect(typed, id) == ToLowerCase(Trim(typed)) = ToLowerCase(WordText(id))

\* onChange of the text input (disabled once graded)
TypeInput ==
  /\ DMounted
  /\ CurrentWord # 0
  /\ feedback = "none"
  /\ \E t \in TypedInputs : t # input /\ input' = t
  /\ last' = [op |-> "type"]
  /\ UNCHANGED <<view, propVars, appVars, studyVars, timers, completed, dQueue,
                 dCurrentIndex, feedback, dSessionErrors, dLearnedIds,
                 lastResponse, everQueued, answered, exited>>

\* the guards without the feedback check
SubmitIgnoredNoFeedbackCheck == CurrentWord = 0

\* if (!currentWord) return; if (feedback !== 'none') return;
SubmitIgnored == CurrentWord = 0 \/ feedback # "none"

\* setLearnedIds(prev => [...prev, currentWord.id])
GradeLearned(prev, id) == Append(prev, id)

\* the record typed as StudyMode's recordError types it
GradeErrorsLearningType(prev, id) ==
  Append(prev, [wordId |-> id, type |-> "learning"])

\* the record written over the list instead of appended to it
GradeErrorsOverwrites(prev, id) == <<[wordId |-> id, type |-> "dictation"]>>

\* setSessionErrors(prev => [...prev, {wordId, ..., type: 'dictation'}])
GradeErrors(prev, id) == Append(prev, [wordId |-> id, type |-> "dictation"])

\* handleSubmit
HandleSubmit ==
  /\ DMounted
  /\ IF SubmitIgnored
     THEN /\ last' = [op |-> "submit-ignored"]
          /\ UNCHANGED <<feedback, dSessionErrors, dLearnedIds>>
     ELSE LET id == DWordId(CurrentWord) IN
          /\ last' = [op |-> "submit", word |-> id,
                      correct |-> IsCorrect(input, id)]
          /\ IF IsCorrect(input, id)
             THEN /\ feedback' = "correct"
                  /\ dLearnedIds' = GradeLearned(dLearnedIds, id)
                  /\ UNCHANGED dSessionErrors
             ELSE /\ feedback' = "incorrect"
                  /\ dSessionErrors' = GradeErrors(dSessionErrors, id)
                  /\ UNCHANGED dLearnedIds
  /\ UNCHANGED <<view, propVars, appVars, studyVars, timers, completed, dQueue,
                 dCurrentIndex, input, lastResponse, everQueued, answered,
                 exited>>

\* if (currentIndex + 1 >= queue.length)
IsLastWord == dCurrentIndex + 1 >= Len(dQueue)

\* an advance that stays on an entry graded incorrect
AdvancedIndexIfCorrect(prev) == IF feedback = "correct" THEN prev + 1 ELSE prev

\* setCurrentIndex(prev => prev + 1)
AdvancedIndex(prev) == prev + 1

\* the summary with the cursor as its count
DictationSummaryCursorCount ==
  [totalCount |-> dCurrentIndex, errors |-> dSessionErrors,
   learnedIds |-> dLearnedIds]

\* the summary nextWord hands to onComplete
DictationSummary ==
  [totalCount |-> Len(dQueue), errors |-> dSessionErrors,
   learnedIds |-> dLearnedIds]

\* nextWord
NextWord(how) ==
  /\ feedback' = "none"
  /\ input' = <<>>
  /\ IF IsLastWord
     THEN /\ OnComplete(DictationSummary)
          /\ UNCHANGED dCurrentIndex
     ELSE /\ dCurrentIndex' = AdvancedIndex(dCurrentIndex)
          /\ UNCHANGED <<view, completed, appVars>>
  /\ last' = [op |-> "next", how |-> how, final |-> IsLastWord]
  /\ UNCHANGED <<propVars, studyVars, timers, dQueue, dSessionErrors,
                 dLearnedIds, lastResponse, everQueued, answered, exited>>

\* the listener without its feedback !== 'none' condition
DictEnterKeyUngated ==
  /\ DMounted
  /\ NextWord("enter")

\* window keydown listener: Enter with feedback shown
DictEnterKey ==
  /\ DMounted
  /\ feedback # "none"
  /\ NextWord("enter")

\* onClick of the 'next' button, rendered with the 'incorrect' feedback
ClickNext ==
  /\ DMounted
  /\ CurrentWord # 0
  /\ feedback = "incorrect"
  /\ NextWord("click")

(* ================================ App ================================== *)
\* activeBook.words.filter(w => !activeBook.learnedWordIds.includes(w.id))
Unlearned(book) ==
  SelectSeq(book.words, LAMBDA w : w \notin Range(book.learnedWordIds))

\* getSessionWords without the learned-words filter
GetSessionWordsUnfiltered ==
  IF isReviewingErrors THEN reviewWords
  ELSE IF ~HasActiveBook THEN <<>>
  ELSE books[selectedBookId].words

\* getSessionWords
GetSessionWords ==
  IF isReviewingErrors THEN reviewWords
  ELSE IF ~HasActiveBook THEN <<>>
  ELSE Unlearned(books[selectedBookId])

\* ErrorLog.filteredErrors
FilteredErrors(filter) ==
  IF filter = "all" THEN errors
  ELSE SelectSeq(errors, LAMBDA e : e.type = filter)

\* confirmReview without the Map that removes duplicates
UniqueWordsKeepsAll(errs) == [i \in 1..Len(errs) |-> errs[i].wordId]

\* ErrorLog.confirmReview: errors back to words, one per id
UniqueWords(errs) == Unique([i \in 1..Len(errs) |-> errs[i].wordId])

\* word ids no book holds yet (every uploaded word gets a fresh randomUUID)
FreshIds ==
  WordIds \ UNION {Range(books[b].words) : b \in 1..Len(books)}

\* the ids of k parsed words: crypto.randomUUID() gives ids no book holds,
\* and the code only ever tests ids for equality, so the least unused ids
\* stand for them
NewWordIds(k) ==
  LET used == MaxWords - Cardinality(FreshIds)
  IN  [i \in 1..k |-> used + i]

\* onClick of the upload button
OpenUpload ==
  /\ view = "home"
  /\ view' = "upload"
  /\ last' = [op |-> "navigate"]
  /\ UNCHANGED <<propVars, appVars, studyVars, timers, completed, dictVars,
                 lastResponse, everQueued, answered, exited>>

\* FileUpload.onBooksAdded: a parsed book is appended (an upload of several
\* files is as many uploads of one)
BooksAdded ==
  /\ view = "upload"
  /\ \E k \in 1..Cardinality(FreshIds) :
       books' = Append(books, [words |-> NewWordIds(k),
                               learnedWordIds |-> <<>>])
  /\ view' = "home"
  /\ last' = [op |-> "books-added"]
  /\ UNCHANGED <<propVars, selectedBookId, errors, history, reviewWords,
                 isReviewingErrors, studyVars, timers, completed, dictVars,
                 lastResponse, everQueued, answered, exited>>

\* onBack of the upload view and of the error log
Back ==
  /\ view \in {"upload", "errors"}
  /\ view' = "home"
  /\ last' = [op |-> "navigate"]
  /\ UNCHANGED <<propVars, appVars, studyVars, timers, completed, dictVars,
                 lastResponse, everQueued, answered, exited>>

\* onClick of a book button: setSelectedBookId(book.id)
SelectBook ==
  /\ view = "home"
  /\ \E b \in 1..Len(books) : b # selectedBookId /\ selectedBookId' = b
  /\ last' = [op |-> "navigate"]
  /\ UNCHANGED <<view, propVars, books, errors, history, reviewWords,
                 isReviewingErrors, studyVars, timers, completed, dictVars,
                 lastResponse, everQueued, answered, exited>>

\* onClick of the study / dictation card; the session component is mounted
\* with words = getSessionWords() and targetCount = settings.dailyGoal
\* settings.dailyGoal as the number input with min="1" gives it
DailyGoals == 1..MaxTarget

StartSession(mode) ==
  /\ view = "home"
  /\ HasActiveBook
  /\ Unlearned(books[selectedBookId]) # <<>>
  /\ view' = mode
  /\ words' = GetSessionWords
  /\ targetCount' \in DailyGoals
  /\ last' = [op |-> "start", mode |-> mode]
  /\ UNCHANGED <<appVars, studyVars, timers, completed, dictVars,
                 lastResponse, everQueued, answered, exited>>

StartStudy == StartSession("study-active")

StartDictation == StartSession("dictation-active")

\* onClick of the errors card
OpenErrors ==
  /\ view = "home"
  /\ view' = "errors"
  /\ last' = [op |-> "navigate"]
  /\ UNCHANGED <<propVars, appVars, studyVars, timers, completed, dictVars,
                 lastResponse, everQueued, answered, exited>>

\* onClear of the error log: setErrors([])
ClearErrors ==
  /\ view = "errors"
  /\ errors # <<>>
  /\ errors' = <<>>
  /\ last' = [op |-> "clear"]
  /\ UNCHANGED <<view, propVars, books, selectedBookId, history, reviewWords,
                 isReviewingErrors, studyVars, timers, completed, dictVars,
                 lastResponse, everQueued, answered, exited>>

\* ErrorLog.confirmReview(mode) under the chosen filter, then
\* App.startErrorReview; the session is mounted with the review words and
\* targetCount = wordsToStudy.length
StartErrorReview ==
  /\ view = "errors"
  /\ \E filter \in {"all", "learning", "dictation"},
        mode \in {"study-active", "dictation-active"} :
       /\ FilteredErrors(filter) # <<>>
       /\ reviewWords' = UniqueWords(FilteredErrors(filter))
       /\ view' = mode
       /\ last' = [op |-> "review", filter |-> filter, mode |-> mode]
  /\ isReviewingErrors' = TRUE
  /\ words' = reviewWords'
  /\ targetCount' = Len(reviewWords')
  /\ UNCHANGED <<books, selectedBookId, errors, history, studyVars, timers,
                 completed, dictVars, lastResponse, everQueued, answered,
                 exited>>

(* ============================ the system =============================== *)
\* App's useState initial values
InitApp ==
  /\ books = <<>>
  /\ selectedBookId = 0
  /\ errors = <<>>
  /\ history = <<>>
  /\ reviewWords = <<>>
  /\ isReviewingErrors = FALSE

\* StudyMode after mount and its queue-initialising effect
InitStudy ==
  /\ queue = Slice(words, targetCount)
  /\ currentIndex = 0
  /\ isRevealed = FALSE
  /\ sessionErrors = <<>>
  /\ learnedIds = {}

\* DictationMode after mount and its shuffle-and-slice effect
InitDictation ==
  /\ \E p \in Shuffles(Len(words)) : dQueue = Slice(p, targetCount)
  /\ dCurrentIndex = 0
  /\ input = <<>>
  /\ feedback = "none"
  /\ dSessionErrors = <<>>
  /\ dLearnedIds = <<>>

Init ==
  /\ view \in {"study-active", "dictation-active"}
  /\ words \in CandidateLists
  /\ targetCount \in TargetCounts
  /\ IF view = "study-active"
     THEN /\ InitStudy
          /\ dQueue = <<>> /\ dCurrentIndex = 0 /\ input = <<>>
          /\ feedback = "none" /\ dSessionErrors = <<>> /\ dLearnedIds = <<>>
     ELSE /\ InitDictation
          /\ queue = <<>> /\ currentIndex = 0 /\ isRevealed = FALSE
          /\ sessionErrors = <<>> /\ learnedIds = {}
  /\ timers = <<>>
  /\ completed = <<>>
  /\ lastResponse = [w \in WordIds |-> "none"]
  /\ everQueued = Range(queue)
  /\ exited = FALSE
  /\ answered = {}
  /\ InitApp
  /\ last = [op |-> "init"]

Next ==
  \/ ClickKnown
  \/ ClickVague
  \/ ClickUnknown
  \/ StudyEnterKey
  \/ FireResponse
  \/ FireFinish
  \/ Exit
  \/ TypeInput
  \/ HandleSubmit
  \/ DictEnterKey
  \/ ClickNext

Spec == Init /\ [][Next]_vars

(* --------------------- DictationMode on any props ---------------------- *)
\* props.words of DictationMode is any Word[]: the component itself does
\* not require the ids of its words to differ.
WordLists == UNION {[1..n -> WordIds] : n \in 0..MaxWords}

InitAnyWords ==
  /\ view = "dictation-active"
  /\ words \in WordLists
  /\ targetCount \in TargetCounts
  /\ InitDictation
  /\ queue = <<>> /\ currentIndex = 0 /\ isRevealed = FALSE
  /\ sessionErrors = <<>> /\ learnedIds = {}
  /\ timers = <<>>
  /\ completed = <<>>
  /\ lastResponse = [w \in WordIds |-> "none"]
  /\ everQueued = {}
  /\ exited = FALSE
  /\ answered = {}
  /\ InitApp
  /\ last = [op |-> "init"]

NextDictation ==
  \/ TypeInput
  \/ HandleSubmit
  \/ DictEnterKey
  \/ ClickNext
  \/ Exit

SpecDictation == InitAnyWords /\ [][NextDictation]_vars

(* ------------------------- the App around sessions --------------------- *)
\* Error lists a session on the word ids S can hand over: one record per id
\* at most, each of the session's type.
ErrorLists(S, type) ==
  {[i \in 1..Len(l) |-> [wordId |-> l[i], type |-> type]] :
     l \in {c \in CandidateLists : Range(c) \subseteq S}}

\* The results a mounted StudyMode can call onComplete with: its queue holds
\* the first targetCount words, reviewedCount is their number, the learned
\* ids are some of them (the last one answered among them), the errors are
\* records of some of them.
StudyResults ==
  LET ids == Range(Slice(words, targetCount))
  IN  {[reviewedCount |-> Cardinality(ids), errors |-> e, learnedIds |-> L] :
         L \in (SUBSET ids) \ {{}}, e \in ErrorLists(ids, "learning")}

\* The results a mounted DictationMode can call onComplete with: its queue
\* is a truncated shuffle of the words, and each entry is either learned or
\* an error.
DictationResults ==
  UNION {
    LET q == Slice(p, targetCount)
        ids(K) == LET sel == SelectSeq([k \in 1..Len(q) |-> k],
                                       LAMBDA k : k \in K)
                  IN  [i \in 1..Len(sel) |-> words[q[sel[i]]]]
    IN  IF q = <<>> THEN {}
        ELSE {[totalCount |-> Len(q),
               learnedIds |-> ids(K),
               errors |-> [i \in 1..Len(ids((1..Len(q)) \ K)) |->
                             [wordId |-> ids((1..Len(q)) \ K)[i],
                              type |-> "dictation"]]] :
                K \in SUBSET (1..Len(q))}
    : p \in Shuffles(Len(words))}

\* a study session runs to its onComplete call and unmounts
StudySessionCompletes ==
  /\ view = "study-active"
  /\ Len(history) < MaxSessions
  /\ \E r \in StudyResults :
       /\ Len(errors) + Len(r.errors) <= MaxErrors
       /\ HandleComplete(r)
       /\ last' = [op |-> "complete", summary |-> r]
  /\ words' = <<>>
  /\ targetCount' = 0
  /\ UNCHANGED <<studyVars, timers, completed, dictVars, lastResponse,
                 everQueued, answered, exited>>

\* a dictation session runs to its onComplete call and unmounts
DictationSessionCompletes ==
  /\ view = "dictation-active"
  /\ Len(history) < MaxSessions
  /\ \E r \in DictationResults :
       /\ Len(errors) + Len(r.errors) <= MaxErrors
       /\ HandleComplete(r)
       /\ last' = [op |-> "complete", summary |-> r]
  /\ words' = <<>>
  /\ targetCount' = 0
  /\ UNCHANGED <<studyVars, timers, completed, dictVars, lastResponse,
                 everQueued, answered, exited>>

\* onExit of a session the App mounted: the component and its props go
ExitSession ==
  /\ view \in {"study-active", "dictation-active"}
  /\ isReviewingErrors' = FALSE
  /\ view' = "home"
  /\ words' = <<>>
  /\ targetCount' = 0
  /\ last' = [op |-> "exit"]
  /\ UNCHANGED <<books, selectedBookId, errors, history, reviewWords,
                 studyVars, timers, completed, dictVars, lastResponse,
                 everQueued, answered, exited>>

\* the App after its first render, no session mounted
InitHome ==
  /\ view = "home"
  /\ words = <<>>
  /\ targetCount = 0
  /\ queue = <<>> /\ currentIndex = 0 /\ isRevealed = FALSE
  /\ sessionErrors = <<>> /\ learnedIds = {}
  /\ dQueue = <<>> /\ dCurrentIndex = 0 /\ input = <<>>
  /\ feedback = "none" /\ dSessionErrors = <<>> /\ dLearnedIds = <<>>
  /\ timers = <<>>
  /\ completed = <<>>
  /\ lastResponse = [w \in WordIds |-> "none"]
  /\ everQueued = {}
  /\ exited = FALSE
  /\ answered = {}
  /\ InitApp
  /\ last = [op |-> "init"]

NextApp ==
  \/ OpenUpload
  \/ BooksAdded
  \/ Back
  \/ SelectBook
  \/ StartStudy
  \/ StartDictation
  \/ OpenErrors
  \/ ClearErrors
  \/ StartErrorReview
  \/ StudySessionCompletes
  \/ DictationSessionCompletes
  \/ ExitSession

SpecApp == InitHome /\ [][NextApp]_vars

(* ============================== claims ================================= *)
StudySummaries ==
  {completed[i] : i \in {j \in 1..Len(completed) : IsStudySummary(completed[j])}}

ErrorIds(errs) == {errs[i].wordId : i \in 1..Len(errs)}

NoDuplicateWordId(errs) ==
  \A i, j \in 1..Len(errs) : errs[i].wordId = errs[j].wordId => i = j

IsPrefix(s, t) == Len(s) <= Len(t) /\ SubSeq(t, 1, Len(s)) = s

\* C1: every summary a study session hands to onComplete has reviewedCount
\* equal to the number of distinct word ids that ever occupied a queue entry
\* of the session (initial entries and requeued ones), not the number of
\* exposures.
C1_ReviewedCountIsDistinctIds ==
  \A s \in StudySummaries : s.reviewedCount = Cardinality(everQueued)

\* C1 witness: a summary was emitted by a session whose queue grew by
\* requeuing, so that exposures outnumber distinct ids.
C1_Witness ==
  /\ StudySummaries # {}
  /\ Len(queue) > Cardinality(everQueued)
  /\ Cardinality(everQueued) = 2

\* C2: in every emitted study summary, a word whose last applied response
\* was 'known' is in learnedIds and a word whose last applied response was
\* 'vague' or 'unknown' is not.
C2_LastResponseWins ==
  \A s \in StudySummaries : \A w \in WordIds :
    /\ lastResponse[w] = "known" => w \in s.learnedIds
    /\ lastResponse[w] \in {"vague", "unknown"} => w \notin s.learnedIds

\* C3: the study error list never holds two records with the same wordId,
\* in the session state and in every emitted summary.
C3_NoDuplicateErrors ==
  /\ NoDuplicateWordId(sessionErrors)
  /\ \A s \in StudySummaries : NoDuplicateWordId(s.errors)

\* C3 witness: the single candidate word was answered 'vague' twice (the
\* queue grew from one entry to three one copy at a time) and has one record.
C3_Witness ==
  /\ view = "study-active"
  /\ words = <<1>>
  /\ Len(queue) = 3
  /\ last.op = "response" /\ last.type = "vague" /\ last.index = 1
  /\ Len(sessionErrors) = 1

FinishCount(ts) == Cardinality({i \in 1..Len(ts) : ts[i].kind = "finish"})

\* C4: a response on the current entry (its handler's index is the cursor)
\* changes the queue only by appending copies of the current word at the
\* tail: 0 for 'known', 1 for 'vague', 3 for 'unknown'; existing entries keep
\* their position and word.
C4_ResponseOnlyAppends ==
  [][ (last'.op = "response" /\ last'.index = currentIndex)
        => queue' = queue \o [i \in 1..Copies(last'.type)
                                |-> queue[currentIndex + 1]] ]_vars

\* C5: once an error record for a word exists no later step removes or
\* alters it, and a 'known' response leaves its word in learnedIds whether
\* or not the word has an error record.
C5_ErrorLogIndependent ==
  [][ /\ IsPrefix(sessionErrors, sessionErrors')
      /\ (last'.op = "response" /\ last'.type = "known")
           => last'.word \in learnedIds' ]_vars

\* C5 witness: a word with an earlier error record has just been answered
\* 'known': the record is still there and the word is learned.
C5_Witness ==
  /\ last.op = "response" /\ last.type = "known"
  /\ last.word \in ErrorIds(sessionErrors)
  /\ last.word \in learnedIds

FirstN(s, n) == IF n <= 0 THEN <<>> ELSE SubSeq(s, 1, n)

\* C6: for every candidate list and every targetCount the initial study
\* queue is the first min(targetCount, words.length) candidate words in
\* their order, one entry each, with the cursor at 0.
C6_InitialQueue ==
  (view = "study-active" /\ last.op = "init")
    => /\ queue = FirstN(words, Min(targetCount, Len(words)))
       /\ currentIndex = 0

\* C7: the summary scheduled by the final response is the state after that
\* response: its learnedIds and errors are the learned set and error list
\* with the final response applied.
C7_FinalSnapshot ==
  (last.op = "response" /\ last.final)
    => /\ timers # <<>>
       /\ timers[Len(timers)].kind = "finish"
       /\ LET s == timers[Len(timers)].summary IN
          /\ s.learnedIds = learnedIds
          /\ s.errors = sessionErrors
          /\ IF last.type = "known" THEN last.word \in s.learnedIds
             ELSE /\ last.word \notin s.learnedIds
                  /\ last.word \in ErrorIds(s.errors)

\* C7 witness: the final response is a 'known' for a word that failed
\* earlier in the session, with another word learned before it.
C7_Witness ==
  /\ last.op = "response" /\ last.final
  /\ last.word \in ErrorIds(sessionErrors)
  /\ Cardinality(learnedIds) = 2

\* C8: each applied response either emits a summary, when the cursor plus
\* one equals the queue length after requeuing, or else advances the cursor
\* by exactly 1 and emits no summary.
C8_AdvanceOrFinish ==
  [][ last'.op = "response"
        => IF currentIndex + 1 = Len(queue) + Copies(last'.type)
           THEN FinishCount(timers') = FinishCount(timers) + 1
           ELSE /\ currentIndex' = currentIndex + 1
                /\ FinishCount(timers') = FinishCount(timers) ]_vars

\* C9: in a study or dictation session the cursor never exceeds the queue
\* length; while the queue has entries the cursor designates one of them,
\* and a handler acts only on an entry it found at its index.
C9_CursorInsideQueue ==
  /\ currentIndex <= Len(queue)
  /\ dCurrentIndex <= Len(dQueue)
  /\ queue # <<>> => currentIndex < Len(queue)
  /\ dQueue # <<>> => dCurrentIndex < Len(dQueue)
  /\ last.op \in {"response", "submit"} => last.word \in WordIds

\* C9 witness: a response was applied to the last entry of a queue that
\* has grown, and the cursor still designates that entry.
C9_Witness ==
  /\ last.op = "response" /\ last.final
  /\ currentIndex = Len(queue) - 1
  /\ Len(queue) > Len(words)

SummaryLearned(s) ==
  IF IsStudySummary(s) THEN s.learnedIds ELSE Range(s.learnedIds)

\* C10: the learned ids of a study or dictation session, in every state
\* and in every emitted summary, are word ids of the candidate list.
C10_LearnedAreCandidates ==
  /\ learnedIds \subseteq Range(words)
  /\ Range(dLearnedIds) \subseteq Range(words)
  /\ \A i \in 1..Len(completed) :
       SummaryLearned(completed[i]) \subseteq Range(words)

\* C10 witness: a summary with a learned id was emitted for a candidate
\* list that does not hold every word id.
C10_Witness ==
  /\ completed # <<>>
  /\ SummaryLearned(completed[1]) # {}
  /\ Range(words) # WordIds

(* ------------------------- dictation claims ---------------------------- *)
\* typed is text, letter case aside, with blanks before and after it only
Matches(typed, text) ==
  \E i, j \in 0..Len(typed) :
    /\ i + Len(text) + j = Len(typed)
    /\ \A k \in 1..i : typed[k] = " "
    /\ \A k \in 1..j : typed[i + Len(text) + k] = " "
    /\ \A k \in 1..Len(text) : Lower(typed[i + k]) = Lower(text[k])
    /\ Len(text) > 0 => typed[i + 1] # " " /\ typed[i + Len(text)] # " "

\* C11: a submit grades the current entry correct exactly when the typed
\* text, surrounding blanks removed and letter case ignored, is the target
\* word's text, and incorrect in every other case.
C11_GradingIsTrimmedCaseFold ==
  last.op = "submit" =>
    /\ feedback = "correct" <=> Matches(input, WordText(last.word))
    /\ feedback = "incorrect" <=> ~Matches(input, WordText(last.word))

C11_Witness ==
  /\ last.op = "submit"
  /\ input = <<" ", "A", "B", " ">>
  /\ feedback = "correct"

\* C12: an entry accepts one submit; a submit on an entry that is already
\* graded leaves the feedback, the learned ids and the error list as they were.
C12_SecondSubmitIsNoOp ==
  [][(feedback # "none" /\ last'.op \in {"submit", "submit-ignored"})
       => UNCHANGED <<feedback, dLearnedIds, dSessionErrors>>]_vars

C12_Witness ==
  /\ last.op = "submit-ignored"
  /\ CurrentWord # 0
  /\ feedback = "incorrect"
  /\ Len(dSessionErrors) = 1

\* C13: an accepted submit that matches adds the current word's id to the
\* learned ids, shows 'correct' and leaves the error list; one that does not
\* match appends one 'dictation' error record for the current word, shows
\* 'incorrect' and leaves the learned ids.
C13_SubmitEffects ==
  [][last'.op = "submit" =>
       LET w == words[dQueue[dCurrentIndex + 1]] IN
       IF Matches(input, WordText(w))
       THEN /\ feedback' = "correct"
            /\ Range(dLearnedIds') = Range(dLearnedIds) \cup {w}
            /\ dSessionErrors' = dSessionErrors
       ELSE /\ feedback' = "incorrect"
            /\ dSessionErrors' =
                 Append(dSessionErrors, [wordId |-> w, type |-> "dictation"])
            /\ dLearnedIds' = dLearnedIds]_vars

C13_Witness ==
  /\ last.op = "submit"
  /\ feedback = "incorrect"
  /\ Len(dLearnedIds) = 1
  /\ dSessionErrors = <<[wordId |-> last.word, type |-> "dictation"]>>

\* C14 (as stated): every advance moves the cursor forward by exactly 1,
\* resets the entry state to pending, and no step changes the queue.
C14_AdvanceMovesCursor ==
  [][/\ dQueue' = dQueue
     /\ last'.op = "next" =>
          /\ dCurrentIndex' = dCurrentIndex + 1
          /\ feedback' = "none"]_vars

\* C14 (amended): an advance from an entry that is not the last moves the
\* cursor forward by exactly 1, whether the entry was graded correct or
\* incorrect, and emits nothing; an advance from the last entry leaves the
\* cursor and emits one summary; every advance resets the entry state to
\* pending, and no step changes the queue.
C14_AdvanceOrFinalize ==
  [][/\ dQueue' = dQueue
     /\ last'.op = "next" =>
          /\ feedback' = "none"
          /\ IF dCurrentIndex + 1 < Len(dQueue)
             THEN /\ dCurrentIndex' = dCurrentIndex + 1
                  /\ completed' = completed
             ELSE /\ dCurrentIndex' = dCurrentIndex
                  /\ Len(completed') = Len(completed) + 1]_vars

C14_Witness ==
  /\ last.op = "next"
  /\ ~last.final
  /\ dCurrentIndex = 1
  /\ Len(dSessionErrors) = 1
  /\ feedback = "none"

IsDictationSummary(s) == "totalCount" \in DOMAIN s

DictationSummaries ==
  {completed[i] : i \in {j \in 1..Len(completed) :
                            IsDictationSummary(completed[j])}}

C16_OneErrorPerWord ==
  \A s \in DictationSummaries : NoDuplicateWordId(s.errors)

\* C17: an entry goes pending -> graded -> advanced, in that order: a submit
\* takes effect only on a pending entry, an advance happens only on a graded
\* one, the entry state changes by these two operations only, and the
\* cursor never passes an entry that was not graded.
C17_EntryStateMachine ==
  /\ [](dCurrentIndex <= Len(dLearnedIds) + Len(dSessionErrors))
  /\ [][/\ last'.op = "submit" => feedback = "none"
        /\ last'.op = "next" => feedback \in {"correct", "incorrect"}
        /\ feedback' # feedback =>
             \/ /\ feedback = "none"
                /\ last'.op = "submit"
                /\ feedback' \in {"correct", "incorrect"}
             \/ /\ feedback # "none"
                /\ last'.op = "next"
                /\ feedback' = "none"
        /\ <<dLearnedIds, dSessionErrors>>' # <<dLearnedIds, dSessionErrors>>
             => feedback = "none" /\ last'.op = "submit"
        /\ dCurrentIndex' # dCurrentIndex
             => feedback # "none" /\ last'.op = "next"]_vars

C17_Witness ==
  /\ last.op = "next"
  /\ last.how = "enter"
  /\ dCurrentIndex = 1
  /\ dLearnedIds # <<>>
  /\ dSessionErrors = <<>>

(* --------------------------- session claims ---------------------------- *)
\* C18: a study response made when the queue is empty or the cursor is out
\* of range is signalled to the caller as a disallowed operation and leaves
\* the queue, the cursor, the learned set and the error list unchanged.
C18_ResponseWithoutEntryFails ==
  [][last'.op = "ignored" =>
       /\ last'.threw
       /\ UNCHANGED <<queue, currentIndex, learnedIds, sessionErrors>>]_vars

\* C19: once onExit has been called no onComplete call occurs for the
\* session, not even from a timer callback that was pending at the exit, so
\* App receives no summary to merge into the book, the error log and the
\* history.
C19_ExitEmitsNothing == exited => completed = <<>>

\* C20: for every shuffle outcome the dictation queue has exactly
\* min(targetCount, number of candidates) entries (none when that is
\* negative), every entry is a candidate word, and no occurrence of a
\* candidate is in the queue twice.
C20_InitialDictationQueue ==
  /\ Len(dQueue) = Max(0, Min(targetCount, Len(words)))
  /\ \A k \in 1..Len(dQueue) : dQueue[k] \in 1..Len(words)
  /\ \A i, j \in 1..Len(dQueue) : dQueue[i] = dQueue[j] => i = j

(* ------------------------ study concurrency claims --------------------- *)
\* C21: the study queue is append-only: on every step, delayed responses
\* included, the queue before the step is a prefix of the queue after it.
C21_QueueAppendOnly == [][IsPrefix(queue, queue')]_vars

\* C23: no step lowers the study cursor.
C23_CursorMonotone == [][currentIndex' >= currentIndex]_vars

\* C22: a study queue entry receives at most one applied response: no
\* response, immediate or delayed, is applied to an entry that a response
\* has already been applied to.
C22_OneResponsePerEntry ==
  [][last'.op = "response" => last'.index \notin answered]_vars

(* ------------------------- termination claims ------------------------- *)
\* C24: a run of 'known' responses ends the session after finitely many of
\* them: every applied 'known' response either finalizes, leaving a deferred
\* callback that holds the summary, or leaves the queue as it is and lowers
\* the number of entries from the cursor on by exactly 1, which stays at
\* least 1; and a deferred callback leaves the timers only by handing its
\* summary to onComplete.
C24_KnownResponsesTerminate ==
  [][/\ (last'.op = "response" /\ last'.type = "known") =>
          IF last'.final
          THEN FinishCount(timers') = FinishCount(timers) + 1
          ELSE /\ queue' = queue
               /\ Len(queue') - currentIndex' = Len(queue) - currentIndex - 1
               /\ Len(queue') - currentIndex' >= 1
     /\ FinishCount(timers') < FinishCount(timers) =>
          /\ last'.op = "complete"
          /\ Len(completed') = Len(completed) + 1]_vars

C24_Witness ==
  /\ last.op = "complete"
  /\ Len(queue) = 3
  /\ currentIndex = 2
  /\ completed # <<>>

\* C25: a session mounted with a non-empty candidate list has a non-empty
\* queue, whatever the targetCount.
C25_QueueNonEmpty ==
  Len(words) > 0 =>
    /\ view = "study-active" => queue # <<>>
    /\ view = "dictation-active" => dQueue # <<>>

(* --------------------------- summary claims ---------------------------- *)
\* C26: a session emits at most one summary: onComplete is called at most
\* once.
C26_AtMostOneSummary == Len(completed) <= 1

\* C27: only a 'known' response finalizes a study session, and in every
\* emitted study summary learnedIds is the set of distinct word ids of the
\* queue and has reviewedCount elements.
C27_AllWordsLearnedAtEnd ==
  /\ [](\A s \in StudySummaries :
          /\ s.learnedIds = Range(queue)
          /\ Cardinality(s.learnedIds) = s.reviewedCount)
  /\ [][(last'.op = "response" /\ last'.final) => last'.type = "known"]_vars

SessionWordIds(s) ==
  IF IsStudySummary(s) THEN Range(queue)
  ELSE {words[dQueue[k]] : k \in 1..Len(dQueue)}

\* C28: in every emitted summary each error record's word id is the id of a
\* word in the session queue and the errors are no more than the count, so
\* the accuracy App computes for the history record is an integer from 0 to
\* 100 and is stored as computed.
C28_AccuracyInRange ==
  \A i \in 1..Len(completed) :
    LET s == completed[i]
        count == SummaryCount(s)
        n == Len(s.errors)
    IN  /\ ErrorIds(s.errors) \subseteq SessionWordIds(s)
        /\ n <= count
        /\ Accuracy(count, n) \in 0..100
        /\ StoredAccuracy(count, n) = Accuracy(count, n)

C28_Witness ==
  \E i \in 1..Len(completed) :
    /\ SummaryCount(completed[i]) = 2
    /\ Len(completed[i].errors) = 1
    /\ StoredAccuracy(2, 1) = 50

\* entries graded so far: those the cursor has passed, and the current one
\* once it shows feedback or once the summary has been emitted
Graded ==
  IF DictationSummaries # {} THEN Len(dQueue)
  ELSE dCurrentIndex + (IF feedback # "none" THEN 1 ELSE 0)

\* C29: in every state of a dictation session the learned ids and the error
\* records together are as many as the entries graded so far, and in the
\* emitted summary they are as many as totalCount.
C29_DictationAccounting ==
  /\ Len(dLearnedIds) + Len(dSessionErrors) = Graded
  /\ \A s \in DictationSummaries :
       Len(s.learnedIds) + Len(s.errors) = s.totalCount

C29_Witness ==
  /\ DictationSummaries # {}
  /\ Len(dLearnedIds) = 1
  /\ Len(dSessionErrors) = 1

\* C30: the learnedIds of a dictation summary hold no word id more than
\* once, also when the candidate list holds the same id more than once.
C30_LearnedIdsAreASet ==
  \A s \in DictationSummaries :
    \A i, j \in 1..Len(s.learnedIds) :
      s.learnedIds[i] = s.learnedIds[j] => i = j

(* ------------------------- claims about the App ------------------------ *)
\* s holds no element twice
DuplicateFree(s) == \A i, j \in 1..Len(s) : s[i] = s[j] => i = j

\* C31: in a step that completes a session while a book is selected, that
\* book's learnedWordIds becomes a duplicate-free list of exactly its previous
\* ids and the summary's learnedIds, its words stay, and every other book is
\* left as it was.
C31_LearnedIdsMerged ==
  [][(last'.op = "complete" /\ HasActiveBook) =>
       LET learned == Range(LearnedArray(last'.summary))
           b == selectedBookId
       IN  /\ Len(books') = Len(books)
           /\ DuplicateFree(books'[b].learnedWordIds)
           /\ Range(books'[b].learnedWordIds) =
                Range(books[b].learnedWordIds) \cup learned
           /\ books'[b].words = books[b].words
           /\ \A o \in 1..Len(books) : o # b => books'[o] = books[o]]_vars

\* a completed session has added ids to a book that had learned ids before
C31_Witness ==
  /\ last.op = "complete"
  /\ HasActiveBook
  /\ Range(LearnedArray(last.summary)) # {}
  /\ Range(LearnedArray(last.summary)) #
       Range(books[selectedBookId].learnedWordIds)
  /\ Range(LearnedArray(last.summary)) \subseteq
       Range(books[selectedBookId].learnedWordIds)

\* C32: while a normal (non-review) session is mounted, its candidate list
\* holds no word id that is in the learnedWordIds of the active book.
C32_SessionWordsUnlearned ==
  (view \in {"study-active", "dictation-active"} /\ ~isReviewingErrors) =>
    /\ HasActiveBook
    /\ Range(words) \cap Range(books[selectedBookId].learnedWordIds) = {}

\* a normal session of a book some of whose words an earlier session learned
C32_Witness ==
  /\ view \in {"study-active", "dictation-active"}
  /\ ~isReviewingErrors
  /\ HasActiveBook
  /\ words # <<>>
  /\ Range(books[selectedBookId].learnedWordIds) \cap
       Range(books[selectedBookId].words) # {}

\* displayed progress of a book, in percent (activeBookProgress)
Progress(book) == Round(Len(book.learnedWordIds) * 100, Len(book.words))

\* C33: every book's learnedWordIds holds only ids of that book's own words,
\* and the displayed progress never exceeds 100.
C33_LearnedIdsWithinBook ==
  \A b \in 1..Len(books) :
    /\ Range(books[b].learnedWordIds) \subseteq Range(books[b].words)
    /\ Progress(books[b]) <= 100

\* word ids of a list of error records
WordIdsOf(errs) == {errs[i].wordId : i \in 1..Len(errs)}

\* C34: a step that starts an error review hands the session a word list
\* that holds no id twice and holds exactly the word ids of the error
\* records the chosen filter shows.
C34_ReviewWordsUnique ==
  [][last'.op = "review" =>
       /\ words' = reviewWords'
       /\ DuplicateFree(words')
       /\ Range(words') = WordIdsOf(FilteredErrors(last'.filter))]_vars

\* a review started from records that name a word more than once
C34_Witness ==
  /\ last.op = "review"
  /\ view \in {"study-active", "dictation-active"}
  /\ Len(FilteredErrors(last.filter)) > Len(words)
  /\ words # <<>>

====
